---- MODULE Spec2Model ----
(***************************************************************************)
(* State-machine model of src/invokedbapp.py: ModelDatabase.load_models    *)
(* and the InvokeAIViewer event handlers (mount, input changed, header     *)
(* selected, reset, generate symlinks).                                    *)
(*                                                                         *)
(* Python strings are sequences of one-character strings.  Python None and *)
(* SQL NULL are the one-element sequence None, which is no string of the   *)
(* alphabet.                                                               *)
(***************************************************************************)
EXTENDS Integers, Sequences, FiniteSets, TLC

VARIABLES
    db_state,          \* the backing file: "ok", "missing" or "error"
    db_rows,           \* rows of table models, in the store's natural order
    queried,           \* cursor.execute has been called
    pc,                \* "init" before on_mount has run, "running" after
    all_models,        \* self.all_models
    filtered_models,   \* self.filtered_models
    filter_name,       \* self.filter_name
    filter_type,       \* self.filter_type
    filter_subtype,    \* self.filter_subtype
    sort_column,       \* self.sort_column
    sort_reverse,      \* self.sort_reverse
    input_value,       \* value of the three Input widgets
    pending,           \* Input.Changed messages posted and not yet handled
    table_columns,     \* header labels of the DataTable
    table_rows,        \* rows of the DataTable
    status_text,       \* the #status_text widget: message and colour
    symlinks,          \* local list symlinks built by the last event (<<>>
                       \* when it built none)
    copy_calls,        \* the texts the last event passed to pyperclip.copy
    last_event,        \* the event that happened last, with its argument
    type_clicks,       \* consecutive activations of the type header, the
                       \* first in the default sort state (0 when none)
    reset_run,         \* consecutive reset actions just performed (max 2)
    after_reset        \* a reset was performed and only Input.Changed
                       \* messages were handled since

engine == <<all_models, filtered_models, filter_name, filter_type,
            filter_subtype, sort_column, sort_reverse>>

display == <<table_columns, table_rows, status_text>>

vars == <<db_state, db_rows, queried, pc, all_models, filtered_models, filter_name,
          filter_type, filter_subtype, sort_column, sort_reverse,
          input_value, pending, table_columns, table_rows, status_text,
          symlinks, copy_calls, last_event, type_clicks, reset_run,
          after_reset>>

----------------------------------------------------------------------------
(* Bounds *)

MaxRows == 2        \* rows in the store

----------------------------------------------------------------------------
(* Strings *)

None == <<"None">>

EmptyStr == <<>>

Unknown == <<"U", "n", "k", "n", "o", "w", "n">>

\* ord(c) for the characters that are compared
CodePoint(c) ==
    CASE c = " " -> 32
      [] c = "." -> 46
      [] c = "/" -> 47
      [] c = "0" -> 48
      [] c = "5" -> 53
      [] c = "A" -> 65
      [] c = "B" -> 66
      [] c = "N" -> 78
      [] c = "U" -> 85
      [] c = "a" -> 97
      [] c = "b" -> 98
      [] c = "k" -> 107
      [] c = "n" -> 110
      [] c = "o" -> 111
      [] c = "u" -> 117
      [] c = "w" -> 119

\* str.lower() on one character
LowerChar(c) ==
    CASE c = "A" -> "a"
      [] c = "B" -> "b"
      [] c = "N" -> "n"
      [] c = "U" -> "u"
      [] OTHER -> c

\* str.lower()
str_lower(s) == [i \in 1..Len(s) |-> LowerChar(s[i])]

\* Python's f in s for strings
str_in(f, s) ==
    \E i \in 0..(Len(s) - Len(f)) : SubSeq(s, i + 1, i + Len(f)) = f

\* Python's a < b for strings: lexicographic on code points
str_lt(a, b) ==
    \E k \in 1..(Len(b)) :
        /\ k <= Len(a) + 1
        /\ \A j \in 1..(k - 1) : a[j] = b[j]
        /\ \/ k = Len(a) + 1
           \/ k <= Len(a) /\ CodePoint(a[k]) < CodePoint(b[k])

\* str.strip() == "" : only whitespace, or nothing
str_strip_empty(s) == \A i \in 1..Len(s) : s[i] = " "

\* the integer of one digit d, as the store returns a JSON number
Number(d) == <<"Int", d>>

\* isinstance(x, str)
is_str(x) == x = EmptyStr \/ x[1] \notin {"None", "Int"}

\* bool(x): None, "" and 0 are false
truthy(x) == x # None /\ x # EmptyStr /\ x # Number("0")

\* str(x), as an f-string formats x
py_str(x) ==
    IF x = None THEN <<"N", "o", "n", "e">>
    ELSE IF is_str(x) THEN x
    ELSE <<x[2]>>

\* x or default
or_default(x, d) == IF truthy(x) THEN x ELSE d

----------------------------------------------------------------------------
(* pathlib *)

\* index of the first "/" of s, Len(s) + 1 when there is none
first_slash(s) ==
    IF \E i \in 1..Len(s) : s[i] = "/"
    THEN CHOOSE i \in 1..Len(s) :
            s[i] = "/" /\ \A j \in 1..(i - 1) : s[j] # "/"
    ELSE Len(s) + 1

\* the components of a path: split on "/", empty and "." components dropped
RECURSIVE path_parts(_)
path_parts(s) ==
    IF s = <<>> THEN <<>>
    ELSE LET i == first_slash(s)
             head == SubSeq(s, 1, i - 1)
             rest == SubSeq(s, i + 1, Len(s))
         IN  (IF head = <<>> \/ head = <<".">> THEN <<>> ELSE <<head>>)
             \o path_parts(rest)

path_is_absolute(s) == Len(s) > 0 /\ s[1] = "/"

\* the components joined by "/"
RECURSIVE join_parts(_)
join_parts(parts) ==
    IF parts = <<>> THEN <<>>
    ELSE IF Len(parts) = 1 THEN parts[1]
    ELSE parts[1] \o <<"/">> \o join_parts(Tail(parts))

\* Path(s).suffix
path_suffix(s) ==
    LET parts == path_parts(s)
        name == IF parts = <<>> THEN <<>> ELSE parts[Len(parts)]
        dots == {i \in 1..Len(name) : name[i] = "."}
    IN  IF dots = {} THEN <<>>
        ELSE LET i == CHOOSE d \in dots : \A e \in dots : e <= d
             IN  IF 1 < i /\ i < Len(name)
                 THEN SubSeq(name, i, Len(name))
                 ELSE <<>>

\* self.data_path, an absolute directory
DataPath == <<"/", "d">>

ModelsDir == <<"m", "o", "d", "e", "l", "s">>

\* str(self.data_path / "models" / model_path)
full_path(model_path) ==
    LET parts == path_parts(model_path)
    IN  IF path_is_absolute(model_path)
        THEN <<"/">> \o join_parts(parts)
        ELSE IF parts = <<>> THEN DataPath \o <<"/">> \o ModelsDir
        ELSE DataPath \o <<"/">> \o ModelsDir \o <<"/">> \o join_parts(parts)

----------------------------------------------------------------------------
(* ModelDatabase.load_models *)

\* what json_extract returns for $.trigger_phrases: SQL NULL ("null"), the
\* text of a JSON list with the given items ("text_list"), the text of another
\* JSON value whose str() is the item ("text_value"), text that is no JSON
\* ("text_invalid"), or a number ("number")
Payload(kind, items) == [kind |-> kind, items |-> items]

NoPayload == Payload("null", <<>>)

Row(n, t, b, p, tr) == [model_name |-> n, model_type |-> t, model_base |-> b,
                        model_path |-> p, trigger_phrases |-> tr]

\* the rows a store is filled from: every field a string or NULL
RowPool ==
    { Row(None, <<"a">>, None, None, NoPayload),
      Row(<<"a">>, <<"B">>, <<"a">>, <<"a", ".", "b">>,
          Payload("text_list", <<(<<"a">>), (<<"b">>)>>)),
      Row(<<"A">>, <<"b">>, <<"a">>, <<" ">>, Payload("text_invalid", <<>>)),
      Row(<<"b">>, <<"a">>, <<"b">>, <<"/", "a">>,
          Payload("text_value", <<(<<"5">>)>>)) }

\* rows with the other values a config can hold: numbers, an empty name, a
\* list of trigger phrases that are not strings
WideRowPool ==
    { Row(<<"a">>, <<"B">>, <<"a">>, <<"a", ".", "b">>,
          Payload("text_list", <<(<<"a">>), (<<"b">>)>>)),
      Row(EmptyStr, <<"a">>, <<"b">>, <<"b", ".", "a">>, Payload("number", <<Number("5")>>)),
      Row(Number("5"), Number("5"), <<"a">>, Number("0"), Payload("number", <<Number("0")>>)),
      Row(<<"b">>, <<"a">>, <<"a">>, Number("5"), NoPayload),
      Row(<<"a">>, <<"a">>, <<"a">>, None, Payload("text_list", <<Number("5")>>)) }

Stores == UNION { [1..n -> RowPool] : n \in 0..MaxRows }

WideStores == UNION { [1..n -> WideRowPool] : n \in 0..MaxRows }

\* ORDER BY model_name COLLATE NOCASE ASC: NULL first, then numbers, then
\* text by folded name
sql_before(x, y) ==
    IF x.model_name = None THEN y.model_name # None
    ELSE IF ~is_str(x.model_name)
    THEN /\ y.model_name # None
         /\ \/ is_str(y.model_name)
            \/ CodePoint(x.model_name[2]) < CodePoint(y.model_name[2])
    ELSE /\ is_str(y.model_name)
         /\ str_lt(str_lower(x.model_name), str_lower(y.model_name))

\* x is placed before the first element it precedes, after all others
RECURSIVE sql_insert(_, _)
sql_insert(x, s) ==
    IF s = <<>> THEN <<x>>
    ELSE IF sql_before(x, Head(s)) THEN <<x>> \o s
    ELSE <<Head(s)>> \o sql_insert(x, Tail(s))

\* rows in query order; rows of equal name keep the store's row order
RECURSIVE sql_order_by(_)
sql_order_by(rows) ==
    IF rows = <<>> THEN <<>>
    ELSE sql_insert(rows[Len(rows)],
                    sql_order_by(SubSeq(rows, 1, Len(rows) - 1)))

\* the list triggers after the block "Parse trigger phrases": json.loads
\* raises JSONDecodeError on text that is no JSON and TypeError on a number
parse_triggers(payload) ==
    IF payload.kind = "null" \/ payload = Payload("number", <<Number("0")>>)
    THEN <<>>
    ELSE IF payload.kind = "text_list" THEN payload.items
    ELSE IF payload.kind = "text_value" THEN payload.items
    ELSE <<>>

\* ", ".join(triggers), for strings
RECURSIVE join_triggers(_)
join_triggers(triggers) ==
    IF triggers = <<>> THEN <<>>
    ELSE IF Len(triggers) = 1 THEN triggers[1]
    ELSE triggers[1] \o <<",", " ">> \o join_triggers(Tail(triggers))

\* the row makes load_models raise TypeError: Path() of a number, or join of
\* a list holding something that is no string
row_raises(row) ==
    \/ truthy(row.model_path) /\ ~is_str(row.model_path)
    \/ \E i \in 1..Len(parse_triggers(row.trigger_phrases)) :
          ~is_str(parse_triggers(row.trigger_phrases)[i])

\* model_of_row without the extension of the path
model_of_row_no_ext(row) ==
    LET ext == IF ~truthy(row.model_path)
               THEN EmptyStr
               ELSE path_suffix(row.model_path)
        display_name == py_str(or_default(row.model_name, Unknown))
    IN  [name |-> display_name,
         type |-> or_default(row.model_type, Unknown),
         subtype |-> or_default(row.model_base, Unknown),
         triggers |-> join_triggers(parse_triggers(row.trigger_phrases)),
         path |-> or_default(row.model_path, EmptyStr)]

\* the dict appended for one row
model_of_row(row) ==
    LET ext == IF ~truthy(row.model_path)
               THEN EmptyStr
               ELSE path_suffix(row.model_path)
        display_name == py_str(or_default(row.model_name, Unknown)) \o ext
    IN  [name |-> display_name,
         type |-> or_default(row.model_type, Unknown),
         subtype |-> or_default(row.model_base, Unknown),
         triggers |-> join_triggers(parse_triggers(row.trigger_phrases)),
         path |-> or_default(row.model_path, EmptyStr)]

\* load_models raises an exception that is no sqlite3.Error
load_models_raises(rows) == \E i \in 1..Len(rows) : row_raises(rows[i])

\* the list load_models returns when it returns
load_models(rows) ==
    LET ordered == sql_order_by(rows)
    IN  [i \in 1..Len(ordered) |-> model_of_row(ordered[i])]

----------------------------------------------------------------------------
(* InvokeAIViewer: the filter and sort engine *)

Columns == <<"name", "type", "subtype">>

\* m[column]
field(m, column) ==
    CASE column = "name" -> m.name
      [] column = "type" -> m.type
      [] column = "subtype" -> m.subtype

\* apply_filters with the three tests ORed
passes_filters_or(m, fn, ft, fs) ==
    \/ fn # EmptyStr => str_in(fn, str_lower(m.name))
    \/ ft # EmptyStr => str_in(ft, str_lower(m.type))
    \/ fs # EmptyStr => str_in(fs, str_lower(m.subtype))

\* the three list comprehensions of apply_filters, for one model: a filter
\* that is the empty string is skipped
passes_filters(m, fn, ft, fs) ==
    /\ fn # EmptyStr => str_in(fn, str_lower(m.name))
    /\ ft # EmptyStr => str_in(ft, str_lower(m.type))
    /\ fs # EmptyStr => str_in(fs, str_lower(m.subtype))

\* the models of s that pass, in the order of s
filter_models(s, fn, ft, fs) == SelectSeq(s, LAMBDA m : passes_filters(m, fn, ft, fs))

\* x sorts strictly before y under key x[column].lower() and reverse
sorts_before(x, y, column, reverse) ==
    IF reverse
    THEN str_lt(str_lower(field(y, column)), str_lower(field(x, column)))
    ELSE str_lt(str_lower(field(x, column)), str_lower(field(y, column)))

\* an insertion that keeps one of two equal models
RECURSIVE sort_insert_unique(_, _, _, _)
sort_insert_unique(x, s, column, reverse) ==
    IF s = <<>> THEN <<x>>
    ELSE IF x = Head(s) THEN s
    ELSE IF sorts_before(x, Head(s), column, reverse) THEN <<x>> \o s
    ELSE <<Head(s)>> \o sort_insert_unique(x, Tail(s), column, reverse)

RECURSIVE sort_insert(_, _, _, _)
sort_insert(x, s, column, reverse) ==
    IF s = <<>> THEN <<x>>
    ELSE IF sorts_before(x, Head(s), column, reverse) THEN <<x>> \o s
    ELSE <<Head(s)>> \o sort_insert(x, Tail(s), column, reverse)

Reverse(s) == [i \in 1..Len(s) |-> s[Len(s) + 1 - i]]

RECURSIVE sort_ascending(_, _)
sort_ascending(s, column) ==
    IF s = <<>> THEN <<>>
    ELSE sort_insert(s[Len(s)], sort_ascending(SubSeq(s, 1, Len(s) - 1), column),
                     column, FALSE)

\* a descending sort obtained by reversing the ascending one
list_sort_reversed(s, column, reverse) ==
    IF reverse THEN Reverse(sort_ascending(s, column)) ELSE sort_ascending(s, column)

\* list.sort(key=..., reverse=...): stable, also when reverse is set
RECURSIVE list_sort(_, _, _)
list_sort(s, column, reverse) ==
    IF s = <<>> THEN <<>>
    ELSE sort_insert(s[Len(s)],
                     list_sort(SubSeq(s, 1, Len(s) - 1), column, reverse),
                     column, reverse)

\* the rows update_table adds
table_rows_of(models) ==
    [i \in 1..Len(models) |-> <<models[i].name, models[i].type, models[i].subtype>>]

Status(kind, a, b, error) == [kind |-> kind, a |-> a, b |-> b, error |-> error]

\* the message update_status shows
update_status(all, filtered) ==
    IF Len(filtered) = Len(all)
    THEN Status("showing_all", Len(all), Len(all), FALSE)
    ELSE Status("showing", Len(filtered), Len(all), FALSE)

\* apply_filters raises AttributeError: .lower() is called on a field that is
\* no string, by a filter that is set, on the models left by the filters
\* before it, or by the sort, on the models left by all three
apply_filters_raises(fn, ft, fs, column) ==
    LET by_name == SelectSeq(all_models,
                       LAMBDA m : fn # EmptyStr => str_in(fn, str_lower(m.name)))
        by_type == SelectSeq(by_name,
                       LAMBDA m : ft # EmptyStr => str_in(ft, str_lower(m.type)))
        by_subtype == SelectSeq(by_type,
                       LAMBDA m : fs # EmptyStr => str_in(fs, str_lower(m.subtype)))
    IN  IF ft # EmptyStr /\ \E i \in 1..Len(by_name) : ~is_str(by_name[i].type)
        THEN TRUE
        ELSE IF fs # EmptyStr /\ \E i \in 1..Len(by_type) : ~is_str(by_type[i].subtype)
        THEN TRUE
        ELSE \E i \in 1..Len(by_subtype) : ~is_str(field(by_subtype[i], column))

\* apply_filters sorting self.all_models itself when no filter has copied it
apply_filters_in_place(fn, ft, fs, column, reverse) ==
    /\ filtered_models' = list_sort(filter_models(all_models, fn, ft, fs), column, reverse)
    /\ all_models' = IF fn = EmptyStr /\ ft = EmptyStr /\ fs = EmptyStr
                     THEN filtered_models' ELSE all_models
    /\ table_rows' = table_rows_of(filtered_models')

\* apply_filters without the call of update_table
apply_filters_no_render(fn, ft, fs, column, reverse) ==
    /\ filtered_models' = list_sort(filter_models(all_models, fn, ft, fs), column, reverse)
    /\ all_models' = all_models
    /\ table_rows' = table_rows

\* apply_filters starting from the visible list when it holds every record
apply_filters_resort(fn, ft, fs, column, reverse) ==
    /\ filtered_models' = list_sort(filter_models(IF Len(filtered_models) = Len(all_models)
                                               THEN filtered_models ELSE all_models,
                                               fn, ft, fs), column, reverse)
    /\ all_models' = all_models
    /\ table_rows' = table_rows_of(filtered_models')

\* apply_filters, but for the status line, which its callers set: it reads
\* the filters and the sort state the handler has just assigned
apply_filters(fn, ft, fs, column, reverse) ==
    /\ filtered_models' = list_sort(filter_models(all_models, fn, ft, fs), column, reverse)
    /\ all_models' = all_models
    /\ table_rows' = table_rows_of(filtered_models')

----------------------------------------------------------------------------
(* InvokeAIViewer: the widgets *)

BoxIds == <<"input_name", "input_type", "input_subtype">>

\* the texts typed into each filter box
BoxTexts(id) ==
    CASE id = "input_name" -> {EmptyStr, <<".", "B">>}
      [] id = "input_type" -> {EmptyStr, <<"B">>}
      [] id = "input_subtype" -> {EmptyStr, <<"N">>}

Changed(id, value) == [id |-> id, value |-> value]

Header(label, indicator) == [label |-> label, indicator |-> indicator]

HeaderLabels == <<"Model", "Type", "Base Model">>

Event(ev, arg) == [ev |-> ev, arg |-> arg]

----------------------------------------------------------------------------
(* Initial state: the app constructed, not yet mounted *)

Init ==
    /\ db_state \in {"ok", "missing", "error"}
    /\ db_rows \in Stores
    /\ db_state # "ok" => db_rows = <<>>
    /\ queried = FALSE
    /\ pc = "init"
    /\ all_models = <<>>
    /\ filtered_models = <<>>
    /\ filter_name = EmptyStr
    /\ filter_type = EmptyStr
    /\ filter_subtype = EmptyStr
    /\ sort_column = "name"
    /\ sort_reverse = FALSE
    /\ input_value = [id \in {BoxIds[i] : i \in 1..3} |-> EmptyStr]
    /\ pending = <<>>
    /\ table_columns = <<>>
    /\ table_rows = <<>>
    /\ status_text = Status("loading", 0, 0, FALSE)
    /\ symlinks = <<>>
    /\ copy_calls = <<>>
    /\ last_event = Event("init", 0)
    /\ type_clicks = 0
    /\ reset_run = 0
    /\ after_reset = FALSE

----------------------------------------------------------------------------
(* Handlers *)

\* on_mount keeping the records built before the row that made the load fail
on_mount_partial ==
    /\ pc = "init"
    /\ pc' = "running"
    /\ table_columns' = <<Header("Model", "down"), Header("Type", "none"),
                          Header("Base Model", "none")>>
    /\ queried' = (db_state # "missing")
    /\ IF db_state = "ok" /\ ~load_models_raises(db_rows)
       THEN /\ all_models' = load_models(db_rows)
            /\ filtered_models' = all_models'
            /\ table_rows' = table_rows_of(filtered_models')
            /\ status_text' = update_status(all_models', filtered_models')
       ELSE /\ status_text' = Status(IF db_state = "missing"
                                     THEN "load_error_not_found"
                                     ELSE IF db_state = "error"
                                     THEN "load_error_database"
                                     ELSE "load_error_exception", 0, 0, TRUE)
            /\ all_models' =
                   IF db_state = "ok"
                   THEN load_models(SelectSeq(db_rows, LAMBDA row : ~row_raises(row)))
                   ELSE <<>>
            /\ UNCHANGED <<filtered_models, table_rows>>
    /\ last_event' = Event("mount", 0)
    /\ type_clicks' = 0
    /\ reset_run' = 0
    /\ after_reset' = FALSE
    /\ symlinks' = <<>>
    /\ copy_calls' = <<>>
    /\ UNCHANGED <<db_state, db_rows, filter_name, filter_type, filter_subtype,
                   sort_column, sort_reverse, input_value, pending>>

\* on_mount drawing the other glyph on the first header
on_mount_up ==
    /\ pc = "init"
    /\ pc' = "running"
    /\ table_columns' = <<Header("Model", "up"), Header("Type", "none"),
                          Header("Base Model", "none")>>
    /\ queried' = (db_state # "missing")
    /\ IF db_state = "ok" /\ ~load_models_raises(db_rows)
       THEN /\ all_models' = load_models(db_rows)
            /\ filtered_models' = all_models'
            /\ table_rows' = table_rows_of(filtered_models')
            /\ status_text' = update_status(all_models', filtered_models')
       ELSE /\ status_text' = Status(IF db_state = "missing"
                                     THEN "load_error_not_found"
                                     ELSE IF db_state = "error"
                                     THEN "load_error_database"
                                     ELSE "load_error_exception", 0, 0, TRUE)
            /\ UNCHANGED <<all_models, filtered_models, table_rows>>
    /\ last_event' = Event("mount", 0)
    /\ type_clicks' = 0
    /\ reset_run' = 0
    /\ after_reset' = FALSE
    /\ symlinks' = <<>>
    /\ copy_calls' = <<>>
    /\ UNCHANGED <<db_state, db_rows, filter_name, filter_type, filter_subtype,
                   sort_column, sort_reverse, input_value, pending>>

on_mount ==
    /\ pc = "init"
    /\ pc' = "running"
    /\ table_columns' = <<Header("Model", "down"), Header("Type", "none"),
                          Header("Base Model", "none")>>
    /\ queried' = (db_state # "missing")
    /\ IF db_state = "ok" /\ ~load_models_raises(db_rows)
       THEN /\ all_models' = load_models(db_rows)
            /\ filtered_models' = all_models'
            /\ table_rows' = table_rows_of(filtered_models')
            /\ status_text' = update_status(all_models', filtered_models')
       ELSE /\ status_text' = Status(IF db_state = "missing"
                                     THEN "load_error_not_found"
                                     ELSE IF db_state = "error"
                                     THEN "load_error_database"
                                     ELSE "load_error_exception", 0, 0, TRUE)
            /\ UNCHANGED <<all_models, filtered_models, table_rows>>
    /\ last_event' = Event("mount", 0)
    /\ type_clicks' = 0
    /\ reset_run' = 0
    /\ after_reset' = FALSE
    /\ symlinks' = <<>>
    /\ copy_calls' = <<>>
    /\ UNCHANGED <<db_state, db_rows, filter_name, filter_type, filter_subtype,
                   sort_column, sort_reverse, input_value, pending>>

\* the user edits a filter box: the Input posts Input.Changed with its new
\* value.  The user edits once the messages posted before are handled; a
\* reset may still come while the message of an edit is pending.
user_types(id, text) ==
    /\ pc = "running"
    /\ pending = <<>>
    /\ text # input_value[id]
    /\ input_value' = [input_value EXCEPT ![id] = text]
    /\ pending' = Append(pending, Changed(id, text))
    /\ last_event' = Event("typed", 0)
    /\ type_clicks' = 0
    /\ reset_run' = 0
    /\ after_reset' = FALSE
    /\ symlinks' = <<>>
    /\ copy_calls' = <<>>
    /\ UNCHANGED <<db_state, db_rows, queried, pc, engine, display>>

\* on_input_changed storing the name text as typed
on_input_changed_raw ==
    /\ pc = "running"
    /\ pending # <<>>
    /\ LET event == Head(pending)
       IN  /\ filter_name' = IF event.id = "input_name"
                             THEN event.value ELSE filter_name
           /\ filter_type' = IF event.id = "input_type"
                             THEN str_lower(event.value) ELSE filter_type
           /\ filter_subtype' = IF event.id = "input_subtype"
                                THEN str_lower(event.value) ELSE filter_subtype
    /\ pending' = Tail(pending)
    /\ IF apply_filters_raises(filter_name', filter_type', filter_subtype',
                               sort_column)
       THEN /\ pc' = "crashed"
            /\ UNCHANGED <<all_models, filtered_models, table_rows, status_text>>
       ELSE /\ pc' = pc
            /\ apply_filters(filter_name', filter_type', filter_subtype',
                             sort_column, sort_reverse)
            /\ status_text' = update_status(all_models', filtered_models')
    /\ last_event' = Event("input", 0)
    /\ type_clicks' = 0
    /\ reset_run' = 0
    /\ after_reset' = after_reset
    /\ symlinks' = <<>>
    /\ copy_calls' = <<>>
    /\ UNCHANGED <<db_state, db_rows, queried, sort_column, sort_reverse,
                   input_value, table_columns>>

on_input_changed ==
    /\ pc = "running"
    /\ pending # <<>>
    /\ LET event == Head(pending)
       IN  /\ filter_name' = IF event.id = "input_name"
                             THEN str_lower(event.value) ELSE filter_name
           /\ filter_type' = IF event.id = "input_type"
                             THEN str_lower(event.value) ELSE filter_type
           /\ filter_subtype' = IF event.id = "input_subtype"
                                THEN str_lower(event.value) ELSE filter_subtype
    /\ pending' = Tail(pending)
    /\ IF apply_filters_raises(filter_name', filter_type', filter_subtype',
                               sort_column)
       THEN /\ pc' = "crashed"
            /\ UNCHANGED <<all_models, filtered_models, table_rows, status_text>>
       ELSE /\ pc' = pc
            /\ apply_filters(filter_name', filter_type', filter_subtype',
                             sort_column, sort_reverse)
            /\ status_text' = update_status(all_models', filtered_models')
    /\ last_event' = Event("input", 0)
    /\ type_clicks' = 0
    /\ reset_run' = 0
    /\ after_reset' = after_reset
    /\ symlinks' = <<>>
    /\ copy_calls' = <<>>
    /\ UNCHANGED <<db_state, db_rows, queried, sort_column, sort_reverse,
                   input_value, table_columns>>

\* the handler keeping the direction when another column is selected
on_data_table_header_selected_keep(column_index) ==
    /\ pc = "running"
    /\ last_event' = Event("header", column_index)
    /\ reset_run' = 0
    /\ after_reset' = FALSE
    /\ symlinks' = <<>>
    /\ copy_calls' = <<>>
    /\ IF column_index \notin 0..2
       THEN /\ type_clicks' = 0
            /\ UNCHANGED <<pc, engine, display>>
       ELSE LET selected_column == Columns[column_index + 1]
            IN  /\ IF sort_column = selected_column
                   THEN /\ sort_reverse' = ~sort_reverse
                        /\ sort_column' = sort_column
                   ELSE /\ sort_column' = selected_column
                        /\ sort_reverse' = sort_reverse
                /\ table_columns' =
                       [i \in 1..3 |->
                           Header(HeaderLabels[i],
                                  IF i = column_index + 1
                                  THEN (IF ~sort_reverse' THEN "down" ELSE "up")
                                  ELSE "none")]
                /\ IF apply_filters_raises(filter_name, filter_type,
                                           filter_subtype, sort_column')
                   THEN \* table.clear(columns=True) has emptied the table
                        /\ pc' = "crashed"
                        /\ table_rows' = <<>>
                        /\ UNCHANGED <<all_models, filtered_models, status_text>>
                   ELSE /\ pc' = pc
                        /\ apply_filters(filter_name, filter_type, filter_subtype,
                                         sort_column', sort_reverse')
                        /\ status_text' = update_status(all_models', filtered_models')
                /\ type_clicks' =
                       IF selected_column # "type" THEN 0
                       ELSE IF sort_column = "name" /\ ~sort_reverse THEN 1
                       ELSE IF type_clicks \in 1..2 THEN type_clicks + 1
                       ELSE 0
                /\ UNCHANGED <<filter_name, filter_type, filter_subtype>>
    /\ UNCHANGED <<db_state, db_rows, queried, input_value, pending>>

on_data_table_header_selected(column_index) ==
    /\ pc = "running"
    /\ last_event' = Event("header", column_index)
    /\ reset_run' = 0
    /\ after_reset' = FALSE
    /\ symlinks' = <<>>
    /\ copy_calls' = <<>>
    /\ IF column_index \notin 0..2
       THEN /\ type_clicks' = 0
            /\ UNCHANGED <<pc, engine, display>>
       ELSE LET selected_column == Columns[column_index + 1]
            IN  /\ IF sort_column = selected_column
                   THEN /\ sort_reverse' = ~sort_reverse
                        /\ sort_column' = sort_column
                   ELSE /\ sort_column' = selected_column
                        /\ sort_reverse' = FALSE
                /\ table_columns' =
                       [i \in 1..3 |->
                           Header(HeaderLabels[i],
                                  IF i = column_index + 1
                                  THEN (IF ~sort_reverse' THEN "down" ELSE "up")
                                  ELSE "none")]
                /\ IF apply_filters_raises(filter_name, filter_type,
                                           filter_subtype, sort_column')
                   THEN \* table.clear(columns=True) has emptied the table
                        /\ pc' = "crashed"
                        /\ table_rows' = <<>>
                        /\ UNCHANGED <<all_models, filtered_models, status_text>>
                   ELSE /\ pc' = pc
                        /\ apply_filters(filter_name, filter_type, filter_subtype,
                                         sort_column', sort_reverse')
                        /\ status_text' = update_status(all_models', filtered_models')
                /\ type_clicks' =
                       IF selected_column # "type" THEN 0
                       ELSE IF sort_column = "name" /\ ~sort_reverse THEN 1
                       ELSE IF type_clicks \in 1..2 THEN type_clicks + 1
                       ELSE 0
                /\ UNCHANGED <<filter_name, filter_type, filter_subtype>>
    /\ UNCHANGED <<db_state, db_rows, queried, input_value, pending>>

\* a reset that also returns to the default sort state
action_reset_filters_sort ==
    /\ pc = "running"
    /\ input_value' = [id \in DOMAIN input_value |-> EmptyStr]
    /\ pending' = pending \o
           SelectSeq([i \in 1..3 |-> Changed(BoxIds[i], EmptyStr)],
                     LAMBDA e : input_value[e.id] # EmptyStr)
    /\ filter_name' = EmptyStr
    /\ filter_type' = EmptyStr
    /\ filter_subtype' = EmptyStr
    /\ sort_column' = "name"
    /\ sort_reverse' = FALSE
    /\ IF apply_filters_raises(filter_name', filter_type', filter_subtype',
                               sort_column')
       THEN /\ pc' = "crashed"
            /\ UNCHANGED <<all_models, filtered_models, table_rows, status_text>>
       ELSE /\ pc' = pc
            /\ apply_filters(filter_name', filter_type', filter_subtype',
                             sort_column', sort_reverse')
            /\ status_text' = Status("filters_reset", 0, 0, FALSE)
    /\ last_event' = Event("reset", 0)
    /\ type_clicks' = 0
    /\ reset_run' = IF reset_run < 2 THEN reset_run + 1 ELSE 2
    /\ after_reset' = TRUE
    /\ symlinks' = <<>>
    /\ copy_calls' = <<>>
    /\ UNCHANGED <<db_state, db_rows, queried, table_columns>>

\* a reset that flips the direction as a header activation does
action_reset_filters_flip ==
    /\ pc = "running"
    /\ input_value' = [id \in DOMAIN input_value |-> EmptyStr]
    /\ pending' = pending \o
           SelectSeq([i \in 1..3 |-> Changed(BoxIds[i], EmptyStr)],
                     LAMBDA e : input_value[e.id] # EmptyStr)
    /\ filter_name' = EmptyStr
    /\ filter_type' = EmptyStr
    /\ filter_subtype' = EmptyStr
    /\ sort_column' = sort_column
    /\ sort_reverse' = ~sort_reverse
    /\ IF apply_filters_raises(filter_name', filter_type', filter_subtype',
                               sort_column')
       THEN /\ pc' = "crashed"
            /\ UNCHANGED <<all_models, filtered_models, table_rows, status_text>>
       ELSE /\ pc' = pc
            /\ apply_filters(filter_name', filter_type', filter_subtype',
                             sort_column', sort_reverse')
            /\ status_text' = Status("filters_reset", 0, 0, FALSE)
    /\ last_event' = Event("reset", 0)
    /\ type_clicks' = 0
    /\ reset_run' = IF reset_run < 2 THEN reset_run + 1 ELSE 2
    /\ after_reset' = TRUE
    /\ symlinks' = <<>>
    /\ copy_calls' = <<>>
    /\ UNCHANGED <<db_state, db_rows, queried, table_columns>>

action_reset_filters ==
    /\ pc = "running"
    /\ input_value' = [id \in DOMAIN input_value |-> EmptyStr]
    /\ pending' = pending \o
           SelectSeq([i \in 1..3 |-> Changed(BoxIds[i], EmptyStr)],
                     LAMBDA e : input_value[e.id] # EmptyStr)
    /\ filter_name' = EmptyStr
    /\ filter_type' = EmptyStr
    /\ filter_subtype' = EmptyStr
    /\ IF apply_filters_raises(filter_name', filter_type', filter_subtype',
                               sort_column)
       THEN /\ pc' = "crashed"
            /\ UNCHANGED <<all_models, filtered_models, table_rows, status_text>>
       ELSE /\ pc' = pc
            /\ apply_filters(filter_name', filter_type', filter_subtype',
                             sort_column, sort_reverse)
            /\ status_text' = Status("filters_reset", 0, 0, FALSE)
    /\ last_event' = Event("reset", 0)
    /\ type_clicks' = 0
    /\ reset_run' = IF reset_run < 2 THEN reset_run + 1 ELSE 2
    /\ after_reset' = TRUE
    /\ symlinks' = <<>>
    /\ copy_calls' = <<>>
    /\ UNCHANGED <<db_state, db_rows, queried, sort_column, sort_reverse,
                   table_columns>>

LnPrefix == <<"l", "n", " ", "-", "s", " ", "\"">>

LnSuffix == <<"\"", " ", ".">>

\* the loop testing only model_path, without strip()
symlink_commands_no_strip(models) ==
    LET kept == SelectSeq(models, LAMBDA m : m.path # EmptyStr)
    IN  [i \in 1..Len(kept) |-> LnPrefix \o full_path(kept[i].path) \o LnSuffix]

\* the list symlinks the loop of action_generate_symlinks builds
symlink_commands(models) ==
    LET kept == SelectSeq(models,
                    LAMBDA m : m.path # EmptyStr /\ ~str_strip_empty(m.path))
    IN  [i \in 1..Len(kept) |-> LnPrefix \o full_path(kept[i].path) \o LnSuffix]

\* "\n".join(lines)
RECURSIVE join_lines(_)
join_lines(lines) ==
    IF lines = <<>> THEN <<>>
    ELSE IF Len(lines) = 1 THEN lines[1]
    ELSE lines[1] \o <<"\n">> \o join_lines(Tail(lines))

\* action_generate_symlinks emptying the visible list when it finds no path
action_generate_symlinks_drop ==
    /\ pc = "running"
    /\ last_event' = Event("generate", 0)
    /\ type_clicks' = 0
    /\ reset_run' = 0
    /\ after_reset' = FALSE
    /\ IF filtered_models = <<>>
       THEN /\ status_text' = Status("no_models", 0, 0, TRUE)
            /\ filtered_models' = filtered_models
            /\ symlinks' = <<>>
            /\ copy_calls' = <<>>
       ELSE /\ symlinks' = symlink_commands(filtered_models)
            /\ IF symlinks' = <<>>
               THEN /\ status_text' = Status("no_valid_paths", 0, 0, TRUE)
                    /\ copy_calls' = <<>>
                    /\ filtered_models' = <<>>
               ELSE /\ copy_calls' = <<join_lines(symlinks')>>
                    /\ filtered_models' = filtered_models
                    \* pyperclip.copy returns, or raises
                    /\ \/ status_text' =
                              Status("copied", Len(symlinks'),
                                     IF Len(symlinks') > 1 THEN 1 ELSE 0, FALSE)
                       \/ status_text' = Status("copy_failed", 0, 0, TRUE)
    /\ UNCHANGED <<db_state, db_rows, queried, pc, all_models, filter_name,
                   filter_type, filter_subtype, sort_column, sort_reverse,
                   input_value, pending, table_columns, table_rows>>

action_generate_symlinks ==
    /\ pc = "running"
    /\ last_event' = Event("generate", 0)
    /\ type_clicks' = 0
    /\ reset_run' = 0
    /\ after_reset' = FALSE
    /\ IF filtered_models = <<>>
       THEN /\ status_text' = Status("no_models", 0, 0, TRUE)
            /\ symlinks' = <<>>
            /\ copy_calls' = <<>>
       ELSE /\ symlinks' = symlink_commands(filtered_models)
            /\ IF symlinks' = <<>>
               THEN /\ status_text' = Status("no_valid_paths", 0, 0, TRUE)
                    /\ copy_calls' = <<>>
               ELSE /\ copy_calls' = <<join_lines(symlinks')>>
                    \* pyperclip.copy returns, or raises
                    /\ \/ status_text' =
                              Status("copied", Len(symlinks'),
                                     IF Len(symlinks') > 1 THEN 1 ELSE 0, FALSE)
                       \/ status_text' = Status("copy_failed", 0, 0, TRUE)
    /\ UNCHANGED <<db_state, db_rows, queried, pc, engine, input_value, pending,
                   table_columns, table_rows>>

----------------------------------------------------------------------------

Next ==
    \/ on_mount
    \/ \E i \in 1..3 : \E text \in BoxTexts(BoxIds[i]) : user_types(BoxIds[i], text)
    \/ on_input_changed
    \/ \E column_index \in 0..3 : on_data_table_header_selected(column_index)
    \/ action_reset_filters
    \/ action_generate_symlinks

Spec == Init /\ [][Next]_vars

\* the app over a store whose rows hold any value a config can hold
InitLoad ==
    /\ db_state \in {"ok", "missing", "error"}
    /\ db_rows \in WideStores
    /\ db_state # "ok" => db_rows = <<>>
    /\ queried = FALSE
    /\ pc = "init"
    /\ all_models = <<>>
    /\ filtered_models = <<>>
    /\ filter_name = EmptyStr
    /\ filter_type = EmptyStr
    /\ filter_subtype = EmptyStr
    /\ sort_column = "name"
    /\ sort_reverse = FALSE
    /\ input_value = [id \in {BoxIds[i] : i \in 1..3} |-> EmptyStr]
    /\ pending = <<>>
    /\ table_columns = <<>>
    /\ table_rows = <<>>
    /\ status_text = Status("loading", 0, 0, FALSE)
    /\ symlinks = <<>>
    /\ copy_calls = <<>>
    /\ last_event = Event("init", 0)
    /\ type_clicks = 0
    /\ reset_run = 0
    /\ after_reset = FALSE

SpecLoad == InitLoad /\ [][Next]_vars

----------------------------------------------------------------------------
(* Properties *)

Range(s) == {s[i] : i \in 1..Len(s)}

Count(r, s) == Cardinality({i \in 1..Len(s) : s[i] = r})

\* each current filter is a substring of the lowercased field of r
Matches(r) ==
    /\ str_in(filter_name, str_lower(r.name))
    /\ str_in(filter_type, str_lower(r.type))
    /\ str_in(filter_subtype, str_lower(r.subtype))

AllFiltersEmpty ==
    filter_name = EmptyStr /\ filter_type = EmptyStr /\ filter_subtype = EmptyStr

\* C1: a record of all_models is in filtered_models if and only if the name
\* filter is a substring of its lowercased name and the type filter of its
\* lowercased type and the subtype filter of its lowercased subtype.
C1_FiltersConjunctive ==
    \A i \in 1..Len(all_models) :
        all_models[i] \in Range(filtered_models) <=> Matches(all_models[i])

\* C1 witness: two filters are set after a filter change, a record that
\* passes both is shown and a record that passes only one of them is not.
C1_Witness ==
    /\ last_event.ev = "input"
    /\ filter_name # EmptyStr /\ filter_type # EmptyStr
    /\ filtered_models # <<>>
    /\ \E r \in Range(all_models) :
          /\ str_in(filter_type, str_lower(r.type))
          /\ ~str_in(filter_name, str_lower(r.name))
          /\ r \notin Range(filtered_models)

\* C2: filtered_models is a sub-multiset of all_models: every entry is an
\* entry of all_models, none occurs more often than in all_models, and every
\* occurrence that passes the filters is kept exactly once.
C2_SubMultiset ==
    /\ Range(filtered_models) \subseteq Range(all_models)
    /\ \A r \in Range(all_models) :
          /\ Count(r, filtered_models) <= Count(r, all_models)
          /\ Matches(r) => Count(r, filtered_models) = Count(r, all_models)

\* C2 witness: a record that is twice in all_models is twice in
\* filtered_models after a filter was set and the list was sorted.
C2_Witness ==
    /\ ~AllFiltersEmpty
    /\ sort_column # "name"
    /\ \E r \in Range(all_models) :
          Count(r, all_models) = 2 /\ Count(r, filtered_models) = 2

\* C3: in the default sort state, a filter change that leaves the three
\* filters empty yields filtered_models equal to all_models as a sequence:
\* the store's order on the raw name is the order apply_filters produces on
\* the lowercased display name.
C3_StoreOrderIsSortOrder ==
    (/\ last_event.ev = "input"
     /\ AllFiltersEmpty
     /\ sort_column = "name" /\ ~sort_reverse)
    => filtered_models = all_models

\* a is before b under the lowercased field column
KeyLt(a, b, column) ==
    str_lt(str_lower(field(a, column)), str_lower(field(b, column)))

\* seq is in ascending (descending, when desc) order of the lowercased field
Ordered(seq, column, desc) ==
    \A i, j \in 1..Len(seq) :
        i < j => IF desc THEN ~KeyLt(seq[i], seq[j], column)
                         ELSE ~KeyLt(seq[j], seq[i], column)

\* res is the records of src that match the filters, ordered by the lowercased
\* field, records of equal key in their order in src
StableOrder(res, src, column, desc) ==
    LET kept == {i \in 1..Len(src) : Matches(src[i])}
    IN  /\ Len(res) = Cardinality(kept)
        /\ \E p \in [1..Len(res) -> kept] :
              /\ \A k \in 1..Len(res) : res[k] = src[p[k]]
              /\ \A k, l \in 1..Len(res) :
                    k < l =>
                      /\ p[k] # p[l]
                      /\ IF desc THEN ~KeyLt(res[k], res[l], column)
                                 ELSE ~KeyLt(res[l], res[k], column)
                      /\ (str_lower(field(res[k], column))
                            = str_lower(field(res[l], column))) => p[k] < p[l]

\* C4: from the default sort state, two activations of the type header in a
\* row leave the filtered records in descending order of lowercased type and
\* a third leaves them in ascending order, records of equal type in their
\* all_models order both times.
C4_TypeToggleStable ==
    /\ type_clicks = 2 => StableOrder(filtered_models, all_models, "type", TRUE)
    /\ type_clicks = 3 => StableOrder(filtered_models, all_models, "type", FALSE)

\* C4 witness: after the second activation two records of equal lowercased
\* type and different type are shown.
C4_Witness ==
    /\ type_clicks = 2
    /\ \E i, j \in 1..Len(filtered_models) :
          /\ i < j
          /\ filtered_models[i].type # filtered_models[j].type
          /\ str_lower(filtered_models[i].type) = str_lower(filtered_models[j].type)

\* C5: a header activation on the active column flips sort_reverse and keeps
\* sort_column; on another known column it sets sort_column to that column
\* and sort_reverse to false, and the list is then in ascending order.
C5_ToggleContract ==
    [][\A c \in 0..2 :
          last_event' = Event("header", c) =>
             IF Columns[c + 1] = sort_column
             THEN sort_reverse' = ~sort_reverse /\ sort_column' = sort_column
             ELSE /\ sort_column' = Columns[c + 1]
                  /\ sort_reverse' = FALSE
                  /\ Ordered(filtered_models', Columns[c + 1], FALSE)]_vars

\* C5 witness: the subtype header was activated last, the direction is
\* ascending and two records of different subtype are shown.
C5_Witness ==
    /\ last_event = Event("header", 2)
    /\ sort_column = "subtype" /\ ~sort_reverse
    /\ \E i, j \in 1..Len(filtered_models) :
          KeyLt(filtered_models[i], filtered_models[j], "subtype")

\* C6: reset sets the three filters to the empty string, recomputes
\* filtered_models (every record, in the current sort order) and leaves
\* sort_column and sort_reverse as they were.
C6_ResetFrame ==
    [][last_event' = Event("reset", 0) =>
          /\ filter_name' = EmptyStr
          /\ filter_type' = EmptyStr
          /\ filter_subtype' = EmptyStr
          /\ sort_column' = sort_column
          /\ sort_reverse' = sort_reverse
          /\ \A r \in Range(all_models) :
                Count(r, filtered_models') = Count(r, all_models)
          /\ Ordered(filtered_models', sort_column, sort_reverse)]_vars

\* C6 witness: a reset was performed in a sort state that is not the default
\* one, with a filter box that was not empty.
C6_Witness ==
    /\ last_event = Event("reset", 0)
    /\ sort_column = "type" /\ sort_reverse
    /\ Len(filtered_models) = 2
    /\ \E i \in 1..Len(pending) : pending[i].value = EmptyStr

\* C7: a reset performed right after a reset changes nothing: filters, sort
\* state, filtered_models, all_models, table, status and filter boxes are
\* as the first reset left them.
C7_ResetIdempotent ==
    [][reset_run' = 2 => UNCHANGED <<engine, display, input_value, pending>>]_vars

\* C7 witness: two resets in a row, with records loaded and a descending sort.
C7_Witness ==
    /\ reset_run = 2
    /\ Len(all_models) = 2
    /\ sort_reverse

\* C8: once the app is mounted no event changes all_models.
C8_AllModelsFrozen ==
    [][pc = "running" => all_models' = all_models]_vars

\* C8 witness: after a header activation every record is shown, in an order
\* that is not the order of all_models.
C8_Witness ==
    /\ last_event.ev = "header"
    /\ Len(filtered_models) = Len(all_models)
    /\ filtered_models # all_models

\* a path that is empty or consists of whitespace only
IsBlank(path) == \A i \in 1..Len(path) : path[i] = " "

NonBlank(models) == SelectSeq(models, LAMBDA m : ~IsBlank(m.path))

\* the text 'ln -s "<data_path>/models/<path>" .'
LnCommand(path) ==
    LnPrefix \o DataPath \o <<"/">> \o ModelsDir \o <<"/">> \o path \o LnSuffix

\* C9: the commands generated are, in filtered_models order, one command
\* 'ln -s "<data_path>/models/<path>" .' for each record whose path is not
\* blank, and the success message reports their number.
C9_SymlinkCommands ==
    last_event.ev = "generate" =>
        /\ symlinks = [i \in 1..Len(NonBlank(filtered_models)) |->
                          LnCommand(NonBlank(filtered_models)[i].path)]
        /\ status_text.kind = "copied" =>
              status_text.a = Len(NonBlank(filtered_models))

\* C10: generate reports NoTargets exactly when filtered_models is empty and
\* NoValidPaths exactly when it is not empty and every path is blank; in both
\* cases pyperclip.copy is not called, otherwise it is called exactly once.
C10_GenerateOutcomes ==
    last_event.ev = "generate" =>
        LET empty == filtered_models = <<>>
            blank == ~empty /\ \A i \in 1..Len(filtered_models) :
                                   IsBlank(filtered_models[i].path)
        IN  /\ status_text.kind = "no_models" <=> empty
            /\ status_text.kind = "no_valid_paths" <=> blank
            /\ Len(copy_calls) = IF empty \/ blank THEN 0 ELSE 1

\* C10 witness: NoValidPaths was reported for a list holding a record whose
\* path is whitespace.
C10_Witness ==
    /\ last_event.ev = "generate"
    /\ status_text.kind = "no_valid_paths"
    /\ \E i \in 1..Len(filtered_models) : filtered_models[i].path = <<" ">>

----------------------------------------------------------------------------

\* the status lines that report an error of a store load
LoadErrors ==
    {"load_error_not_found", "load_error_database", "load_error_exception"}

\* C11: every non-fatal error is reported on the status line as an error and
\* leaves the engine state as it was, and the app goes on running: a generate
\* with nothing visible reports that there are no models, a generate that
\* reports no valid path or a failed copy, and a mount whose load fails and
\* reports the load error, all leave the three filters, the sort column, the
\* sort direction, all_models and filtered_models unchanged
C11_ErrorsKeepState ==
    [][ /\ (last_event'.ev = "generate" /\ filtered_models = <<>>)
           => status_text' = Status("no_models", 0, 0, TRUE)
        /\ (last_event'.ev = "mount" /\ db_state # "ok")
           => status_text'.kind \in LoadErrors
        /\ ( /\ last_event'.ev \in {"generate", "mount"}
             /\ status_text'.kind \in
                    {"no_models", "no_valid_paths", "copy_failed"} \cup LoadErrors )
           => /\ status_text'.error
              /\ UNCHANGED engine
              /\ pc' = "running" ]_vars

\* a failed copy to the clipboard while a filter and a descending sort are set
C11_Witness ==
    /\ last_event.ev = "generate"
    /\ status_text.kind = "copy_failed"
    /\ filter_type # EmptyStr
    /\ sort_reverse
    /\ filtered_models # <<>>

\* no visible model has a usable path, and the visible list is kept
C11_WitnessNoValidPaths ==
    /\ last_event.ev = "generate"
    /\ status_text.kind = "no_valid_paths"
    /\ filtered_models # <<>>

\* no path of the store makes Path() raise
PathsLoadable ==
    \A i \in 1..Len(db_rows) :
        truthy(db_rows[i].model_path) => is_str(db_rows[i].model_path)

\* the payload is a JSON list of strings
ListOfStrings(payload) ==
    /\ payload.kind = "text_list"
    /\ \A i \in 1..Len(payload.items) : is_str(payload.items[i])

\* the payload is a list holding a non-string, a number, or text that does
\* not parse
Unusable(payload) ==
    \/ payload.kind \in {"number", "text_invalid"}
    \/ payload.kind = "text_list" /\ ~ListOfStrings(payload)

\* C12: loading never fails because of a trigger-phrase payload: once the
\* store has been read, and no other field made the load fail, there is one
\* record for every row, no load error is reported, and the triggers of a row
\* whose payload is unusable are empty
C12_TriggersNeverFailLoad ==
    (pc # "init" /\ db_state = "ok" /\ PathsLoadable)
    => /\ Len(all_models) = Len(db_rows)
       /\ status_text.kind \notin LoadErrors
       /\ \A i \in 1..Len(all_models) :
            Unusable(sql_order_by(db_rows)[i].trigger_phrases)
            => all_models[i].triggers = EmptyStr

\* C13: after loading, name, type, subtype and path of every record of
\* all_models are strings, whatever the rows of the store hold, and no handler
\* fails in the filter or the sort of apply_filters
C13_FieldsAreStrings ==
    /\ \A i \in 1..Len(all_models) :
         /\ is_str(all_models[i].name)
         /\ is_str(all_models[i].type)
         /\ is_str(all_models[i].subtype)
         /\ is_str(all_models[i].path)
    /\ pc # "crashed"

\* a handler has failed in apply_filters
C13_Crashed == pc = "crashed"

\* the extension of a path that is text: from the last "." of the last
\* component, when that "." is neither its first nor its last character
Extension(p) ==
    IF \E k \in 2..(Len(p) - 1) :
          /\ p[k] = "." /\ p[k - 1] # "/"
          /\ \A j \in (k + 1)..Len(p) : p[j] \notin {".", "/"}
    THEN LET k == CHOOSE k \in 2..(Len(p) - 1) :
                     /\ p[k] = "." /\ p[k - 1] # "/"
                     /\ \A j \in (k + 1)..Len(p) : p[j] \notin {".", "/"}
         IN  SubSeq(p, k, Len(p))
    ELSE EmptyStr

\* what follows the name: the extension of a path that is present
ExpectedExtension(row) ==
    IF is_str(row.model_path) THEN Extension(row.model_path) ELSE EmptyStr

\* every row of the store has become a record
AllLoaded == pc # "init" /\ Len(all_models) = Len(db_rows)

\* the names of the visible records
VisibleNames == [i \in 1..Len(filtered_models) |-> filtered_models[i].name]

\* two rows, one with an extension and type B, one of another type
ExampleRows ==
    { Row(<<"a">>, <<"B">>, <<"a">>, <<"a", ".", "b">>,
          Payload("text_list", <<(<<"a">>), (<<"b">>)>>)),
      Row(EmptyStr, <<"a">>, <<"b">>, <<"b", ".", "a">>,
          Payload("number", <<Number("5")>>)) }

LoadFails == db_state # "ok" \/ load_models_raises(db_rows)

\* C15: a failed load never shows partial data. When the file is missing no
\* query is made. When the load fails, mount reports the load error, and from
\* then on all_models, filtered_models and the table are empty and the app
\* runs, whatever events follow, and generate reports that there are no models
C15_FailedLoadShowsNothing ==
    /\ (pc # "init" /\ db_state = "missing") => ~queried
    /\ (pc # "init" /\ LoadFails)
       => /\ pc = "running"
          /\ all_models = <<>>
          /\ filtered_models = <<>>
          /\ table_rows = <<>>
          /\ last_event.ev = "mount" => status_text.kind \in LoadErrors
          /\ last_event.ev = "generate"
             => status_text = Status("no_models", 0, 0, TRUE)

\* the second row of the store made the load fail after the first had been
\* turned into a record; later a filter was set and generate was requested
C15_Witness ==
    /\ Len(db_rows) = 2
    /\ ~row_raises(sql_order_by(db_rows)[1])
    /\ row_raises(sql_order_by(db_rows)[2])
    /\ filter_name # EmptyStr
    /\ sort_reverse
    /\ last_event.ev = "generate"
    /\ status_text.kind = "no_models"
    /\ all_models = <<>>

\* C16: whenever a handler has completed, the rows of the table are the
\* (name, type, subtype) projections of filtered_models, in the same order and
\* number
C16_TableShowsFiltered ==
    pc = "running" =>
        /\ Len(table_rows) = Len(filtered_models)
        /\ \A i \in 1..Len(table_rows) :
             /\ Len(table_rows[i]) = 3
             /\ table_rows[i][1] = filtered_models[i].name
             /\ table_rows[i][2] = filtered_models[i].type
             /\ table_rows[i][3] = filtered_models[i].subtype

\* a header activation has rebuilt the columns while a filter is set, and
\* the table shows the matching records in their new order
C16_Witness ==
    /\ pc = "running"
    /\ last_event.ev = "header" /\ last_event.arg \in 0..2
    /\ filter_type # EmptyStr
    /\ Len(table_rows) = 2
    /\ table_rows[1][1] # all_models[1].name

\* C17: from the first render on, exactly one header carries a sort indicator,
\* it is the header of sort_column, and the glyph tells sort_reverse: the
\* downward one when sort_reverse is false, the upward one when it is true
C17_OneIndicator ==
    pc = "running" =>
        /\ Len(table_columns) = 3
        /\ \A i \in 1..3 :
             /\ table_columns[i].label = HeaderLabels[i]
             /\ (table_columns[i].indicator # "none") <=> (Columns[i] = sort_column)
             /\ Columns[i] = sort_column
                => (table_columns[i].indicator = "down" <=> ~sort_reverse)
        /\ Cardinality({i \in 1..3 : table_columns[i].indicator # "none"}) = 1

\* the type header carries the upward glyph after two activations
C17_Witness ==
    /\ pc = "running"
    /\ sort_column = "type" /\ sort_reverse
    /\ table_columns[2].indicator = "up"
    /\ table_columns[1].indicator = "none"

\* C18: once a reset and every Input.Changed message caused by its clearing
\* of the filter boxes have been handled, the boxes and the filters are empty
\* and the status line shows the confirmation "Filters reset"
C18_ResetConfirmed ==
    (pc = "running" /\ after_reset /\ pending = <<>>)
    => /\ \A i \in 1..3 : input_value[BoxIds[i]] = EmptyStr
       /\ AllFiltersEmpty
       /\ status_text = Status("filters_reset", 0, 0, FALSE)

\* C19: after a filter change, an activation of one of the three headers or
\* a reset, filtered_models is the records of all_models that match the three
\* filters, stably sorted by the lowercased sort_column field in the current
\* direction, records of equal key in their all_models order; it depends on
\* nothing else
C19_FilteredIsFunction ==
    ( /\ pc = "running"
      /\ \/ last_event.ev \in {"input", "reset"}
         \/ last_event.ev = "header" /\ last_event.arg \in 0..2 )
    => StableOrder(filtered_models, all_models, sort_column, sort_reverse)

\* after an activation of the type header, two records of equal type stand
\* in their all_models order although their names are in ascending order,
\* where the sort before this one had been by name
C19_Witness ==
    /\ pc = "running"
    /\ last_event = Event("header", 1)
    /\ sort_column = "type"
    /\ Len(filtered_models) = Len(all_models)
    /\ \E i, j \in 1..Len(filtered_models) :
          /\ i < j
          /\ str_lower(filtered_models[i].type) = str_lower(filtered_models[j].type)
          /\ KeyLt(filtered_models[i], filtered_models[j], "name")
          /\ \E k, l \in 1..Len(all_models) :
                /\ k < l
                /\ all_models[k] = filtered_models[i]
                /\ all_models[l] = filtered_models[j]
                /\ all_models[k] # all_models[l]

\* C20: the handling of an Input.Changed message sets the filter of its box
\* to the lowercased text and leaves the other two filters, sort_column and
\* sort_reverse as they were; and always each stored filter is its own
\* lowercased form and sort_column is one of name, type, subtype
C20_FilterChangeFrame ==
    /\ [](/\ filter_name = str_lower(filter_name)
          /\ filter_type = str_lower(filter_type)
          /\ filter_subtype = str_lower(filter_subtype)
          /\ sort_column \in {"name", "type", "subtype"})
    /\ [][ (last_event'.ev = "input" /\ pending # <<>>) =>
             LET event == Head(pending)
             IN  /\ event.id = "input_name" =>
                      /\ filter_name' = str_lower(event.value)
                      /\ UNCHANGED <<filter_type, filter_subtype>>
                 /\ event.id = "input_type" =>
                      /\ filter_type' = str_lower(event.value)
                      /\ UNCHANGED <<filter_name, filter_subtype>>
                 /\ event.id = "input_subtype" =>
                      /\ filter_subtype' = str_lower(event.value)
                      /\ UNCHANGED <<filter_name, filter_type>>
                 /\ event.id \in {"input_name", "input_type", "input_subtype"}
                 /\ UNCHANGED <<sort_column, sort_reverse>> ]_vars

\* the name box holds text with a capital, its filter the lowercased text,
\* while another filter and a descending sort on another column are set
C20_Witness ==
    /\ last_event.ev = "input"
    /\ input_value["input_name"] = <<".", "B">>
    /\ filter_name = <<".", "b">>
    /\ filter_type # EmptyStr
    /\ sort_column = "subtype" /\ sort_reverse

====
